---------------------------- MODULE Spec2Model ----------------------------
(***************************************************************************)
(* Model of the migration-map server (src/app.py): the startup aggregation *)
(* of migration records into the state-pair flow table, the flow query     *)
(* endpoints, and the boundary cache that never serves a coarser level     *)
(* than one it has already loaded.                                         *)
(*                                                                         *)
(* Volumes (PrdMIG) are floating-point numbers in the source.  They are    *)
(* modelled in fixed point: an integer v stands for v / VolScale, so that  *)
(* int(x) is a real truncation and not the identity.  Rounding error of    *)
(* floating-point addition is not modelled.                                *)
(***************************************************************************)
EXTENDS Integers, Sequences, FiniteSets, TLC

VARIABLES
    raw,                          \* df after the spatial join (lines 55-56)
    flows,                        \* aggregated flow table (lines 65-66)
    in_mig,                       \* line 69
    out_mig,                      \* line 70
    net_mig,                      \* line 71
    most_detailed_level_loaded,   \* line 83
    cached_most_detailed_data,    \* line 84
    response,                     \* the last HTTP response sent
    threads,                      \* per worker thread: position and locals
    asked,                        \* history: highest level requested since the last reset
    stale,                        \* history: level of the payload the last reset discarded
    first,                        \* history: the last fetch was the first since startup or reset
    raced                         \* history: some request started while another was running

vars == <<raw, flows, in_mig, out_mig, net_mig, most_detailed_level_loaded,
          cached_most_detailed_data, response, threads, asked, stale, first, raced>>

dataVars == <<raw, flows, in_mig, out_mig, net_mig>>
cacheVars == <<most_detailed_level_loaded, cached_most_detailed_data>>
histVars == <<asked, stale, first, raced>>

---------------------------------------------------------------------------
(* Bounds of the model *)

\* fixed-point denominator of a volume
VolScale == 2
\* largest volume of one raw record, in 1/VolScale
MaxVol == 2
\* largest number of raw records of a drawn dataset
MaxRecords == 3
\* number of states of the large dataset
NBig == 15
\* how far the requested zoom may lie outside 1..10
ZoomSlack == 2

(* Program constants *)

\* range(10), line 34
NumLevels == 10
\* min(9, ...), line 95
MaxLevel == 9
\* [:200], line 153
FlowLimit == 200
\* most_detailed_level_loaded = -1, lines 83 and 263
NoLevel == -1

---------------------------------------------------------------------------
(* Values *)

Max2(a, b) == IF a >= b THEN a ELSE b
Min2(a, b) == IF a <= b THEN a ELSE b

\* n whole units as a fixed-point volume
Units(n) == n * VolScale

\* round(x) in place of int(x)
IntOf_round(x) ==
    IF x >= 0 THEN ((x + (VolScale \div 2)) \div VolScale) * VolScale
    ELSE 0 - (((0 - x + (VolScale \div 2)) \div VolScale) * VolScale)

\* int(x): truncation toward zero
IntOf(x) ==
    IF x >= 0 THEN (x \div VolScale) * VolScale
    ELSE 0 - (((0 - x) \div VolScale) * VolScale)

\* float(x): exact on fixed-point values
FloatOf(x) == x

\* the function f as a table of its values, each computed once
Table(f) == f @@ << >>

\* a missing state label after the left join
NaN == "NaN"

\* the 'state' column of india_states.geojson, in sort order
StateNames ==
    <<"A", "B", "C", "D", "E", "F", "G", "H", "I", "J",
      "K", "L", "M", "N", "O", "P", "Q", "R">>

StateSet == {StateNames[i] : i \in DOMAIN StateNames}

\* position of a name in sort order (string comparison of sorted(), line 221)
Rank(s) == CHOOSE i \in DOMAIN StateNames : StateNames[i] = s

\* cached_most_detailed_data is None
None == <<>>

\* json.loads(simplification_levels[l].to_json()): the payload of level l
to_json(l) == <<l>>

LevelOf(payload) == payload[1]

---------------------------------------------------------------------------
(* Startup aggregation, lines 55-71 *)

Rec(o, d, v) == [origin_state |-> o, dest_state |-> d, PrdMIG |-> v]

\* df.dropna(subset=['origin_state', 'dest_state'])
DropNa(df) == SelectSeq(df, LAMBDA r : r.origin_state # NaN /\ r.dest_state # NaN)

\* line 62 left out
DropSelf_missing(df) == df

\* df[df['origin_state'] != df['dest_state']]
DropSelf(df) == SelectSeq(df, LAMBDA r : r.origin_state # r.dest_state)

RECURSIVE SumIdx(_, _)
\* sum of column PrdMIG over the rows of table with index in S
SumIdx(table, S) ==
    IF S = {} THEN 0
    ELSE LET i == CHOOSE j \in S : TRUE
         IN  table[i].PrdMIG + SumIdx(table, S \ {i})

\* df.groupby(['origin_state', 'dest_state'], as_index=False)['PrdMIG'].sum()
GroupBySum(df) ==
    LET keys == {<<df[i].origin_state, df[i].dest_state>> : i \in DOMAIN df}
    IN  {Rec(k[1], k[2],
             SumIdx(df, {i \in DOMAIN df : df[i].origin_state = k[1]
                                           /\ df[i].dest_state = k[2]}))
         : k \in keys}

Perms(S) ==
    {f \in [1..Cardinality(S) -> S] :
        \A i, j \in 1..Cardinality(S) : i # j => f[i] # f[j]}

\* flows.sort_values('PrdMIG', ascending=False): the rows by descending
\* volume.  The sort is not stable, so the rows of one volume may come out in
\* any order: tied[v] is the order chosen for the rows of volume v.
SortValues(rows) ==
    LET group(v)  == {r \in rows : r.PrdMIG = v}
        tiedVols  == {v \in {r.PrdMIG : r \in rows} : Cardinality(group(v)) > 1}
        orders    == UNION {Perms(group(v)) : v \in tiedVols}
        choices   == {f \in [tiedVols -> orders] :
                        \A v \in tiedVols : f[v] \in Perms(group(v))}
        above     == Table([r \in rows |->
                               Cardinality({q \in rows : q.PrdMIG > r.PrdMIG})])
        place(f)  == Table([r \in rows |->
                               above[r] + (IF r.PrdMIG \in tiedVols
                                           THEN CHOOSE i \in DOMAIN f[r.PrdMIG] :
                                                    f[r.PrdMIG][i] = r
                                           ELSE 1)])
        sorted(pl) == Table([p \in 1..Cardinality(rows) |->
                               CHOOSE r \in rows : pl[r] = p])
    IN  {sorted(place(f)) : f \in choices}

\* lines 59-66: the candidate flow tables of a joined record list
Aggregate(df) == SortValues(GroupBySum(DropSelf(DropNa(df))))

\* line 69 grouping by the wrong column
InMig_by_origin(fl) ==
    Table([s \in {fl[i].origin_state : i \in DOMAIN fl} |->
             SumIdx(fl, {i \in DOMAIN fl : fl[i].origin_state = s})])

\* flows.groupby('dest_state')['PrdMIG'].sum()
InMig(fl) ==
    Table([s \in {fl[i].dest_state : i \in DOMAIN fl} |->
             SumIdx(fl, {i \in DOMAIN fl : fl[i].dest_state = s})])

\* flows.groupby('origin_state')['PrdMIG'].sum()
OutMig(fl) ==
    Table([s \in {fl[i].origin_state : i \in DOMAIN fl} |->
             SumIdx(fl, {i \in DOMAIN fl : fl[i].origin_state = s})])

\* series.get(key, default)
Get(series, key, default) ==
    IF key \in DOMAIN series THEN series[key] ELSE default

\* line 71 without fill_value: a state missing on one side gets no total
NetMig_no_fill(im, om) ==
    Table([s \in (DOMAIN im) \cap (DOMAIN om) |-> im[s] - om[s]])

\* in_mig.subtract(out_mig, fill_value=0)
NetMig(im, om) ==
    Table([s \in (DOMAIN im) \cup (DOMAIN om) |-> Get(im, s, 0) - Get(om, s, 0)])

\* state_centroids.index: every state of the boundary file has a centroid
HasCentroid(s) == s \in StateSet

---------------------------------------------------------------------------
(* Query handlers, lines 122-257 *)

RECURSIVE SumRange(_, _, _)
\* sum of column PrdMIG over the rows lo..hi
SumRange(table, lo, hi) ==
    IF lo > hi THEN 0
    ELSE IF lo = hi THEN table[lo].PrdMIG
    ELSE LET mid == (lo + hi) \div 2
         IN  SumRange(table, lo, mid) + SumRange(table, mid + 1, hi)

\* table['PrdMIG'].sum()
SumCol(table) == SumRange(table, 1, Len(table))

\* flows[flows['PrdMIG'] >= min_flow]
FilterFlows(fl, min_flow) == SelectSeq(fl, LAMBDA r : r.PrdMIG >= min_flow)

\* lines 133-150: one entry per filtered row whose two states have a centroid
FlowEntry(row) ==
    [origin_state |-> row.origin_state,
     dest_state   |-> row.dest_state,
     flow_value   |-> FloatOf(row.PrdMIG),
     in_mig       |-> IntOf(Get(in_mig, row.dest_state, 0)),
     out_mig      |-> IntOf(Get(out_mig, row.origin_state, 0)),
     net_mig      |-> IntOf(Get(net_mig, row.origin_state, 0))]

FlowData(fl, min_flow) ==
    LET kept == SelectSeq(FilterFlows(fl, min_flow),
                          LAMBDA r : HasCentroid(r.origin_state)
                                     /\ HasCentroid(r.dest_state))
    IN  Table([i \in DOMAIN kept |-> FlowEntry(kept[i])])

\* sorted(flow_data, key=lambda x: x['flow_value'], reverse=True): a stable
\* sort, so an entry comes after the entries of larger value and after the
\* entries of equal value that precede it in s
SortedDesc(s) ==
    LET place == Table([i \in DOMAIN s |->
                    1 + Cardinality({j \in DOMAIN s :
                                       \/ s[j].flow_value > s[i].flow_value
                                       \/ /\ s[j].flow_value = s[i].flow_value
                                          /\ j < i})])
    IN  Table([p \in DOMAIN s |-> s[CHOOSE i \in DOMAIN s : place[i] = p]])

\* seq[-n:] in place of seq[:n]
Take_last(s, n) == SubSeq(s, Len(s) - Min2(n, Len(s)) + 1, Len(s))

\* seq[:n]
Take(s, n) == SubSeq(s, 1, Min2(n, Len(s)))

\* line 153, without the [:200]
RankedRows(min_flow) == SortedDesc(FlowData(flows, min_flow))

get_flows(min_flow) ==
    /\ response' = [op |-> "flows", min_flow |-> min_flow,
                    body |-> Take(RankedRows(min_flow), FlowLimit)]
    /\ UNCHANGED <<dataVars, cacheVars, threads, histVars>>

\* net_mig.max() / net_mig.min()
MaxOf(series) ==
    CHOOSE v \in {series[s] : s \in DOMAIN series} :
        \A s \in DOMAIN series : series[s] <= v
MinOf(series) ==
    CHOOSE v \in {series[s] : s \in DOMAIN series} :
        \A s \in DOMAIN series : series[s] >= v

get_stats ==
    /\ response' =
         [op |-> "stats",
          total_migration   |-> IntOf(SumCol(flows)),
          num_states        |-> Cardinality(DOMAIN net_mig),
          max_net_migration |-> IF Cardinality(DOMAIN net_mig) > 0
                                THEN IntOf(MaxOf(net_mig)) ELSE 0,
          min_net_migration |-> IF Cardinality(DOMAIN net_mig) > 0
                                THEN IntOf(MinOf(net_mig)) ELSE 0,
          num_flows         |-> Len(flows)]
    /\ UNCHANGED <<dataVars, cacheVars, threads, histVars>>

get_state_migration(state_name) ==
    LET out_flows == SelectSeq(flows, LAMBDA r : r.origin_state = state_name)
        in_flows  == SelectSeq(flows, LAMBDA r : r.dest_state = state_name)
        total_out == IF Len(out_flows) > 0 THEN FloatOf(SumCol(out_flows)) ELSE 0
        total_in  == IF Len(in_flows) > 0 THEN FloatOf(SumCol(in_flows)) ELSE 0
    IN  /\ response' =
             [op |-> "state_migration",
              state     |-> state_name,
              total_out |-> total_out,
              total_in  |-> total_in,
              net_mig   |-> total_in - total_out,
              out_flows |-> [i \in DOMAIN out_flows |->
                               [to_state |-> out_flows[i].dest_state,
                                flow_value |-> FloatOf(out_flows[i].PrdMIG)]],
              in_flows  |-> [i \in DOMAIN in_flows |->
                               [from_state |-> in_flows[i].origin_state,
                                flow_value |-> FloatOf(in_flows[i].PrdMIG)]]]
        /\ UNCHANGED <<dataVars, cacheVars, threads, histVars>>

\* tuple(sorted([origin_state, dest_state]))
SortedPair(a, b) == IF Rank(a) <= Rank(b) THEN <<a, b>> ELSE <<b, a>>

\* lines 217-222
StatePairs(fl) ==
    {SortedPair(fl[i].origin_state, fl[i].dest_state) : i \in DOMAIN fl}

\* flows[(origin_state == a) & (dest_state == b)]['PrdMIG'].sum()
DirectedSum(fl, a, b) ==
    SumCol(SelectSeq(fl, LAMBDA r : r.origin_state = a /\ r.dest_state = b))

Abs(x) == IF x >= 0 THEN x ELSE 0 - x

\* lines 229-239
NetFlow(fl, pair) ==
    DirectedSum(fl, pair[1], pair[2]) - DirectedSum(fl, pair[2], pair[1])

\* lines 243-255: the record appended for a pair that passes line 241
NetRecord(pair, net_flow) ==
    IF net_flow > 0
    THEN [from_state |-> pair[1], to_state |-> pair[2],
          net_flow |-> net_flow, direction |-> 1]
    ELSE [from_state |-> pair[2], to_state |-> pair[1],
          net_flow |-> Abs(net_flow), direction |-> -1]

PairBefore(p, q) ==
    Rank(p[1]) < Rank(q[1]) \/ (p[1] = q[1] /\ Rank(p[2]) < Rank(q[2]))

\* the loop of line 225: one pass over the set state_pairs, which appends a
\* record for every pair with abs(net_flow) >= min_flow.  The iteration order
\* of a Python set is arbitrary; the pairs are taken in sort order here.
NetFlows(fl, pairs, min_flow) ==
    LET net    == Table([p \in pairs |-> NetFlow(fl, p)])
        passed == {p \in pairs : Abs(net[p]) >= min_flow}
        place  == Table([p \in passed |->
                           1 + Cardinality({q \in passed : PairBefore(q, p)})])
    IN  Table([i \in 1..Cardinality(passed) |->
                 LET pair == CHOOSE p \in passed : place[p] = i
                 IN  NetRecord(pair, net[pair])])

get_net_migration(min_flow) ==
    /\ response' = [op |-> "net_migration", min_flow |-> min_flow,
                    body |-> NetFlows(flows, StatePairs(flows), min_flow)]
    /\ UNCHANGED <<dataVars, cacheVars, threads, histVars>>

---------------------------------------------------------------------------
(* Boundary cache, lines 82-120 and 259-265 *)

\* the level a zoom value nominally asks for (history variables only)
NominalLevel(zoom) ==
    IF zoom - 1 < 0 THEN 0
    ELSE IF zoom - 1 > NumLevels - 1 THEN NumLevels - 1
    ELSE zoom - 1

\* min(9, max(0, zoom - 1))
RequestedLevel(zoom) == Min2(MaxLevel, Max2(0, zoom - 1))

\* the comparison of line 99 off by one
LevelCovered_off_by_one(requested_level, loaded) == requested_level - 1 <= loaded

\* the comparison of line 99 the wrong way round
LevelCovered_inverted(requested_level, loaded) == requested_level >= loaded

\* line 99, left operand
LevelCovered(requested_level, loaded) == requested_level <= loaded

\* line 99, right operand
IsLoaded(cached) == cached # None

\* line 107
MoreDetailed(requested_level, loaded) == requested_level > loaded

\* lines 113-120: the features of geojson_data with the migration totals added
Boundaries(zoom, geojson_data) ==
    [op |-> "boundaries", zoom |-> zoom, status |-> 200,
     level |-> LevelOf(geojson_data),
     properties |-> [s \in StateSet |->
                       [net_mig |-> IntOf(Get(net_mig, s, 0)),
                        in_mig  |-> IntOf(Get(in_mig, s, 0)),
                        out_mig |-> IntOf(Get(out_mig, s, 0))]]]

\* line 114 on geojson_data = None: TypeError, answered with status 500
ServerError(zoom) == [op |-> "boundaries", zoom |-> zoom, status |-> 500]

\* a handler that keeps the level loaded last instead of the most detailed one
get_boundaries_last_loaded(zoom) ==
    LET requested_level == RequestedLevel(zoom)
        reuse == requested_level = most_detailed_level_loaded
                 /\ IsLoaded(cached_most_detailed_data)
    IN  /\ most_detailed_level_loaded' = requested_level
        /\ cached_most_detailed_data' = to_json(requested_level)
        /\ response' = Boundaries(zoom, IF reuse THEN cached_most_detailed_data
                                        ELSE to_json(requested_level))
        /\ asked' = Max2(asked, NominalLevel(zoom))
        /\ first' = (asked = NoLevel)
        /\ stale' = IF asked = NoLevel THEN stale ELSE NoLevel
        /\ UNCHANGED <<dataVars, threads, raced>>

\* the whole handler, run without interruption
get_boundaries(zoom) ==
    LET requested_level == RequestedLevel(zoom)
        reuse  == LevelCovered(requested_level, most_detailed_level_loaded)
                  /\ IsLoaded(cached_most_detailed_data)
        update == ~reuse /\ MoreDetailed(requested_level, most_detailed_level_loaded)
        geojson_data == IF reuse THEN cached_most_detailed_data
                        ELSE to_json(requested_level)
    IN  /\ most_detailed_level_loaded' =
             IF update THEN requested_level ELSE most_detailed_level_loaded
        /\ cached_most_detailed_data' =
             IF update THEN to_json(requested_level) ELSE cached_most_detailed_data
        /\ response' = Boundaries(zoom, geojson_data)
        /\ asked' = Max2(asked, NominalLevel(zoom))
        /\ first' = (asked = NoLevel)
        /\ stale' = IF asked = NoLevel THEN stale ELSE NoLevel
        /\ UNCHANGED <<dataVars, threads, raced>>

ResetDone == [op |-> "reset_cache", status |-> "cache_reset"]

\* a reset that forgets line 264
reset_cache_level_only ==
    /\ most_detailed_level_loaded' = NoLevel
    /\ response' = ResetDone
    /\ asked' = NoLevel
    /\ first' = FALSE
    /\ stale' = IF IsLoaded(cached_most_detailed_data)
                THEN LevelOf(cached_most_detailed_data) ELSE NoLevel
    /\ UNCHANGED <<dataVars, cached_most_detailed_data, threads, raced>>

reset_cache ==
    /\ most_detailed_level_loaded' = NoLevel
    /\ cached_most_detailed_data' = None
    /\ response' = ResetDone
    /\ asked' = NoLevel
    /\ first' = FALSE
    /\ stale' = IF IsLoaded(cached_most_detailed_data)
                THEN LevelOf(cached_most_detailed_data) ELSE NoLevel
    /\ UNCHANGED <<dataVars, threads, raced>>

Idle == [pc |-> "idle", zoom |-> 0, requested_level |-> NoLevel]

(* The same two handlers run by worker threads that may be switched at every *)
(* read or write of the two module-level variables.                          *)

Active(t) == threads[t].pc # "idle"

Goto(t, label) == threads' = [threads EXCEPT ![t].pc = label]

Finish(t) == threads' = [threads EXCEPT ![t] = Idle]

OthersActive(t) == \E u \in DOMAIN threads : u # t /\ Active(u)

\* lines 89-99: the request arrives and the level is compared
Begin(t, zoom) ==
    LET requested_level == RequestedLevel(zoom)
    IN  /\ ~Active(t)
        /\ threads' = [threads EXCEPT ![t] =
             [pc |-> IF LevelCovered(requested_level, most_detailed_level_loaded)
                     THEN "L99b" ELSE "L107",
              zoom |-> zoom,
              requested_level |-> requested_level]]
        /\ asked' = Max2(asked, NominalLevel(zoom))
        /\ raced' = (raced \/ OthersActive(t))
        /\ UNCHANGED <<dataVars, cacheVars, response, stale, first>>

\* line 99, right operand
L99b(t) ==
    /\ threads[t].pc = "L99b"
    /\ Goto(t, IF IsLoaded(cached_most_detailed_data) THEN "L101" ELSE "L107")
    /\ UNCHANGED <<dataVars, cacheVars, response, histVars>>

\* lines 101, 114-120
L101(t) ==
    /\ threads[t].pc = "L101"
    /\ response' = IF IsLoaded(cached_most_detailed_data)
                   THEN Boundaries(threads[t].zoom, cached_most_detailed_data)
                   ELSE ServerError(threads[t].zoom)
    /\ Finish(t)
    /\ UNCHANGED <<dataVars, cacheVars, histVars>>

\* lines 104-107, and 111-120 when the level is not more detailed
L107(t) ==
    /\ threads[t].pc = "L107"
    /\ IF MoreDetailed(threads[t].requested_level, most_detailed_level_loaded)
       THEN Goto(t, "L108") /\ UNCHANGED response
       ELSE /\ response' = Boundaries(threads[t].zoom,
                                      to_json(threads[t].requested_level))
            /\ Finish(t)
    /\ UNCHANGED <<dataVars, cacheVars, histVars>>

\* line 108
L108(t) ==
    /\ threads[t].pc = "L108"
    /\ most_detailed_level_loaded' = threads[t].requested_level
    /\ Goto(t, "L109")
    /\ UNCHANGED <<dataVars, cached_most_detailed_data, response, histVars>>

\* lines 109-120
L109(t) ==
    /\ threads[t].pc = "L109"
    /\ cached_most_detailed_data' = to_json(threads[t].requested_level)
    /\ response' = Boundaries(threads[t].zoom, to_json(threads[t].requested_level))
    /\ Finish(t)
    /\ UNCHANGED <<dataVars, most_detailed_level_loaded, histVars>>

\* line 263
R263(t) ==
    /\ ~Active(t)
    /\ most_detailed_level_loaded' = NoLevel
    /\ Goto(t, "R264")
    /\ asked' = NoLevel
    /\ raced' = (raced \/ OthersActive(t))
    /\ UNCHANGED <<dataVars, cached_most_detailed_data, response, stale, first>>

\* lines 264-265
R264(t) ==
    /\ threads[t].pc = "R264"
    /\ cached_most_detailed_data' = None
    /\ response' = ResetDone
    /\ Finish(t)
    /\ UNCHANGED <<dataVars, most_detailed_level_loaded, histVars>>

---------------------------------------------------------------------------
(* Inputs *)

\* the worked example of the specification: A->B 10, B->A 4, A->C 5
ExampleRaw == <<Rec("A", "B", Units(10)), Rec("B", "A", Units(4)),
                Rec("A", "C", Units(5))>>

\* label pairs of the drawn records: flows between A and B and from C to B, a self-flow and
\* records whose origin or destination lies outside every polygon
RecordLabels ==
    <<<<"A", "B">>, <<"B", "A">>, <<"C", "B">>,
      <<"A", "A">>, <<NaN, "B">>, <<"A", NaN>>>>

RecordTypes ==
    {<<l, v>> : l \in DOMAIN RecordLabels, v \in 0..MaxVol}

TypeLess(s, t) == s[1] < t[1] \/ (s[1] = t[1] /\ s[2] <= t[2])

\* record lists of up to MaxRecords records, listed up to their order
DrawnRaws ==
    UNION {
        {[i \in 1..n |-> Rec(RecordLabels[f[i][1]][1], RecordLabels[f[i][1]][2], f[i][2])]
         : f \in {g \in [1..n -> RecordTypes] :
                    \A i \in 1..(n - 1) : TypeLess(g[i], g[i + 1])}}
        : n \in 0..MaxRecords}

\* min_flow arguments
MinFlows == {0, 2, Units(6)}

\* state names asked of state_migration; "Z" is no state
QueryNames == {"A", "B", "C", "Z"}

\* zoom arguments: 1..10 and ZoomSlack values on either side
Zooms == (1 - ZoomSlack)..(NumLevels + ZoomSlack)

\* zoom arguments of the concurrent requests
ConcZooms == {3, 8}

Workers == {"t1", "t2"}

StartUp(r) ==
    /\ raw = r
    /\ flows \in Aggregate(r)
    /\ in_mig = InMig(flows)
    /\ out_mig = OutMig(flows)
    /\ net_mig = NetMig(in_mig, out_mig)
    /\ most_detailed_level_loaded = NoLevel
    /\ cached_most_detailed_data = None
    /\ response = [op |-> "startup"]
    /\ threads = [t \in Workers |-> Idle]
    /\ asked = NoLevel
    /\ stale = NoLevel
    /\ first = FALSE
    /\ raced = FALSE

InitData == \E r \in DrawnRaws \cup {ExampleRaw} : StartUp(r)

NextData ==
    \/ \E m \in MinFlows : get_flows(m)
    \/ get_stats
    \/ \E s \in QueryNames : get_state_migration(s)
    \/ \E m \in MinFlows : get_net_migration(m)

SpecData == InitData /\ [][NextData]_vars

\* the large dataset: one record for every ordered pair of the first NBig
\* states, the k-th pair with volume k, all distinct; record tie (if any)
\* takes the volume of the next one
BigTotal == NBig * (NBig - 1)

BigRaw(tie) ==
    Table([k \in 1..BigTotal |->
        LET i  == ((k - 1) \div (NBig - 1)) + 1
            jj == ((k - 1) % (NBig - 1)) + 1
            j  == IF jj < i THEN jj ELSE jj + 1
        IN  Rec(StateNames[i], StateNames[j], IF k = tie THEN k + 1 ELSE k)])

\* no tie, or a tie around the row that is FlowLimit-th from the top
BigTies == {0} \cup ((BigTotal - FlowLimit - 4)..(BigTotal - FlowLimit + 5))

InitBig == \E r \in {BigRaw(tie) : tie \in BigTies} \cup {ExampleRaw} : StartUp(r)

NextBig ==
    \/ \E m \in MinFlows : get_flows(m)
    \/ get_stats

SpecBig == InitBig /\ [][NextBig]_vars

\* the server, one request at a time
Init == \E r \in {<<>>, ExampleRaw} : StartUp(r)

Next ==
    \/ \E z \in Zooms : get_boundaries(z)
    \/ reset_cache
    \/ \E m \in MinFlows : get_flows(m)
    \/ get_stats
    \/ \E s \in QueryNames : get_state_migration(s)
    \/ \E m \in MinFlows : get_net_migration(m)

Spec == Init /\ [][Next]_vars

\* the boundary cache under concurrent requests
InitConc == StartUp(ExampleRaw)

NextConc ==
    \E t \in Workers :
        \/ \E z \in ConcZooms : Begin(t, z)
        \/ L99b(t)
        \/ L101(t)
        \/ L107(t)
        \/ L108(t)
        \/ L109(t)
        \/ R263(t)
        \/ R264(t)

SpecConc == InitConc /\ [][NextConc]_vars

---------------------------------------------------------------------------
(* Properties *)

Fetched == response.op = "boundaries"

\* C1 (Spec): every fetch is answered, never rejected, with a payload at least
\* as detailed as the level its zoom nominally asks for, namely the payload of
\* the highest level asked for since the last reset; so fetch(z2) followed by
\* fetch(z1), z1 < z2, on a fresh cache returns the z2 payload.
Ratchet ==
    Fetched =>
        /\ response.status = 200
        /\ response.level >= NominalLevel(response.zoom)
        /\ response.level = asked

\* a fetch that was served a finer payload than it asked for
RatchetWitness ==
    /\ Fetched
    /\ response.level > NominalLevel(response.zoom)

\* C2 (Spec): a step lowers most_detailed_level_loaded only if it is a reset,
\* which sets it to -1; every fetch leaves it equal or greater; flows, stats,
\* state_migration and net_migration change neither the level nor the payload.
LevelMonotone ==
    [][/\ response'.op = "reset_cache" => most_detailed_level_loaded' = NoLevel
       /\ response'.op # "reset_cache" =>
            most_detailed_level_loaded' >= most_detailed_level_loaded
       /\ response'.op \notin {"boundaries", "reset_cache"} =>
            UNCHANGED cacheVars]_vars

\* a query other than a fetch or a reset answered while level 9 is cached
LevelMonotoneWitness ==
    /\ response.op \in {"flows", "stats", "state_migration", "net_migration"}
    /\ most_detailed_level_loaded = MaxLevel
    /\ cached_most_detailed_data = to_json(MaxLevel)
    /\ asked = MaxLevel

\* C3 (Spec): right after a reset the cache is in its initial state, and the
\* first fetch after it returns exactly the payload of the level its zoom asks
\* for, which is then the cached one.
ResetFresh ==
    /\ response.op = "reset_cache" =>
         /\ most_detailed_level_loaded = NoLevel
         /\ cached_most_detailed_data = None
    /\ (Fetched /\ first) =>
         /\ response.status = 200
         /\ response.level = NominalLevel(response.zoom)
         /\ most_detailed_level_loaded = NominalLevel(response.zoom)
         /\ cached_most_detailed_data = to_json(NominalLevel(response.zoom))

\* the first fetch after a reset that discarded a more detailed payload
ResetFreshWitness ==
    /\ Fetched
    /\ first
    /\ stale > response.level

UnorderedPair(a, b) == {a, b}

\* C4 (SpecData): net_migration never answers with two records for the same
\* unordered pair of states, and every net_flow in the answer is strictly
\* positive.
NetPairsDistinctPositive ==
    response.op = "net_migration" =>
        /\ \A i, j \in DOMAIN response.body :
             i # j => UnorderedPair(response.body[i].from_state, response.body[i].to_state)
                      # UnorderedPair(response.body[j].from_state, response.body[j].to_state)
        /\ \A i \in DOMAIN response.body : response.body[i].net_flow > 0

RECURSIVE RawVolume(_, _, _)
\* sum of the volumes of the first n raw records from o to d
RawVolume(o, d, n) ==
    IF n = 0 THEN 0
    ELSE RawVolume(o, d, n - 1)
         + (IF raw[n].origin_state = o /\ raw[n].dest_state = d
            THEN raw[n].PrdMIG ELSE 0)

\* C5 (SpecData): the flow table has at most one row per ordered pair, no row
\* from a state to itself, no row with a missing state, and the volume of a
\* row is the sum of the volumes of the raw records of its pair; a record with
\* a missing state or with origin = destination is in no row.
AggregationCorrect ==
    /\ \A i, j \in DOMAIN flows :
         i # j => \/ flows[i].origin_state # flows[j].origin_state
                  \/ flows[i].dest_state # flows[j].dest_state
    /\ \A i \in DOMAIN flows :
         /\ flows[i].origin_state # flows[i].dest_state
         /\ flows[i].origin_state # NaN
         /\ flows[i].dest_state # NaN
         /\ flows[i].PrdMIG
              = RawVolume(flows[i].origin_state, flows[i].dest_state, Len(raw))
    /\ \A n \in DOMAIN raw :
         (\/ raw[n].origin_state = NaN
          \/ raw[n].dest_state = NaN
          \/ raw[n].origin_state = raw[n].dest_state)
         => ~ \E i \in DOMAIN flows :
                /\ flows[i].origin_state = raw[n].origin_state
                /\ flows[i].dest_state = raw[n].dest_state

\* two records of one pair are summed into one row and a record with a
\* missing state is dropped
AggregationWitness ==
    /\ \E m, n \in DOMAIN raw :
         /\ m # n
         /\ raw[m].origin_state = "A" /\ raw[m].dest_state = "B"
         /\ raw[n].origin_state = "A" /\ raw[n].dest_state = "B"
         /\ raw[m].PrdMIG > 0 /\ raw[n].PrdMIG > 0
         /\ flows = <<Rec("A", "B", raw[m].PrdMIG + raw[n].PrdMIG)>>
    /\ \E n \in DOMAIN raw : raw[n].origin_state = NaN

InNoFlow(s) ==
    \A i \in DOMAIN flows : flows[i].origin_state # s /\ flows[i].dest_state # s

\* C6 (SpecData): the answer of state_migration for S carries total_in =
\* in_mig[S], total_out = out_mig[S] and net_mig = net_mig[S], a state missing
\* from a table counting as 0; net_mig[s] = in_mig[s] - out_mig[s] for every
\* state; a name in no flow gets zero totals and empty lists.
StateDetailConsistent ==
    /\ \A s \in StateSet \cup QueryNames :
         Get(net_mig, s, 0) = Get(in_mig, s, 0) - Get(out_mig, s, 0)
    /\ response.op = "state_migration" =>
         /\ response.total_in = Get(in_mig, response.state, 0)
         /\ response.total_out = Get(out_mig, response.state, 0)
         /\ response.net_mig = Get(net_mig, response.state, 0)
         /\ InNoFlow(response.state) =>
              /\ response.total_in = 0
              /\ response.total_out = 0
              /\ response.net_mig = 0
              /\ response.out_flows = <<>>
              /\ response.in_flows = <<>>

\* the detail of a state with inflow and with a different outflow
StateDetailWitness ==
    /\ response.op = "state_migration"
    /\ response.total_in > 0
    /\ response.total_out > 0
    /\ response.net_mig # 0

AllIdle == \A t \in Workers : ~Active(t)

\* what holds of the cache when requests run one at a time
SequentialGuarantee ==
    /\ Fetched =>
         /\ response.status = 200
         /\ response.level >= NominalLevel(response.zoom)
    /\ AllIdle =>
         /\ most_detailed_level_loaded = asked
         /\ cached_most_detailed_data
              = IF asked = NoLevel THEN None ELSE to_json(asked)

\* C7 (SpecConc): with worker threads that can be switched between the compare
\* of line 99 or 107 and the two writes of lines 108 and 109, the sequential
\* guarantee is kept as long as no request has started while another was
\* running, and it can be broken once one has (the witness).
SerialRunsKeepGuarantee == ~raced => SequentialGuarantee

\* after overlapping requests, a fetch is served a payload coarser than the
\* level it asked for
RaceServesCoarser ==
    /\ raced
    /\ Fetched
    /\ response.status = 200
    /\ response.level < NominalLevel(response.zoom)

\* after overlapping fetches and no request running, the level field is lower
\* than a level recorded before
RaceLowersLevel ==
    /\ raced
    /\ AllIdle
    /\ most_detailed_level_loaded < asked

\* the rows of the flow table that flows(min_flow) may return
Qualifying(min_flow) ==
    {i \in DOMAIN flows :
        /\ flows[i].PrdMIG >= min_flow
        /\ flows[i].origin_state \in StateSet
        /\ flows[i].dest_state \in StateSet}

RowOf(entry) == Rec(entry.origin_state, entry.dest_state, entry.flow_value)

\* C8 (SpecBig): the answer of flows(min_flow) holds only rows of the flow
\* table with volume >= min_flow whose two states have a centroid, each at
\* most once, by non-increasing flow value, at most 200 of them, and exactly
\* 200 when more qualify; no qualifying row left out has a larger volume than
\* a row returned.  On the worked example flows(6) is the single row A->B 10.
RankedFlowsCorrect ==
    response.op = "flows" =>
        LET rows == response.body
            q    == Qualifying(response.min_flow)
            kept == {i \in q : \E k \in DOMAIN rows : RowOf(rows[k]) = flows[i]}
        IN  /\ \A k \in DOMAIN rows : \E i \in q : RowOf(rows[k]) = flows[i]
            /\ \A k, l \in DOMAIN rows : k # l => RowOf(rows[k]) # RowOf(rows[l])
            /\ \A k \in 1..(Len(rows) - 1) :
                 rows[k].flow_value >= rows[k + 1].flow_value
            /\ Len(rows) <= 200
            /\ Cardinality(q) > 200 => Len(rows) = 200
            /\ \A i \in q \ kept : \A k \in DOMAIN rows :
                 rows[k].flow_value >= flows[i].PrdMIG
            /\ (raw = ExampleRaw /\ response.min_flow = Units(6)) =>
                 /\ Len(rows) = 1
                 /\ RowOf(rows[1]) = Rec("A", "B", Units(10))

\* more than 200 rows qualify, the answer holds 200, and a row left out has
\* the volume of the last row returned
RankedFlowsWitness ==
    /\ response.op = "flows"
    /\ Cardinality(Qualifying(response.min_flow)) > FlowLimit
    /\ Len(response.body) = FlowLimit
    /\ \E i \in Qualifying(response.min_flow) :
         /\ flows[i].PrdMIG = response.body[FlowLimit].flow_value
         /\ flows[i] # RowOf(response.body[FlowLimit])

RECURSIVE FlowValueSum(_, _, _)
\* sum of flow_value over the entries lo..hi
FlowValueSum(rows, lo, hi) ==
    IF lo > hi THEN 0
    ELSE IF lo = hi THEN rows[lo].flow_value
    ELSE LET mid == (lo + hi) \div 2
         IN  FlowValueSum(rows, lo, mid) + FlowValueSum(rows, mid + 1, hi)

\* the sum over every row of flows(0) without the limit of 200
UnfilteredSum == FlowValueSum(RankedRows(0), 1, Len(RankedRows(0)))

\* C9 as stated (SpecData): total_migration of stats equals the sum of the
\* volumes of every row of an unfiltered, unlimited flows(0).
TotalEqualsRankedSum ==
    response.op = "stats" => response.total_migration = UnfilteredSum

\* C9 as amended (SpecData): total_migration is the whole part of that sum: a
\* whole number, at most the sum and less than one below it.
TotalIsWholePartOfRankedSum ==
    response.op = "stats" =>
        /\ response.total_migration % VolScale = 0
        /\ response.total_migration <= UnfilteredSum
        /\ UnfilteredSum < response.total_migration + VolScale

\* stats over flows whose volumes sum to a fraction
TotalWitness ==
    /\ response.op = "stats"
    /\ response.total_migration < UnfilteredSum
    /\ Len(flows) > 1

ExampleFlows ==
    {Rec("A", "B", Units(10)), Rec("B", "A", Units(4)), Rec("A", "C", Units(5))}

\* C10 as stated (SpecData): the worked example aggregates to A->B 10, B->A 4,
\* A->C 5 with in_mig = {B: 10, A: 4}, out_mig = {A: 15, B: 4} and
\* net_mig = {A: -11, B: 6, C: 5}.
ExampleTotalsAsStated ==
    raw = ExampleRaw =>
        /\ {flows[i] : i \in DOMAIN flows} = ExampleFlows
        /\ Len(flows) = 3
        /\ in_mig = ("B" :> Units(10) @@ "A" :> Units(4))
        /\ out_mig = ("A" :> Units(15) @@ "B" :> Units(4))
        /\ net_mig = ("A" :> Units(0 - 11) @@ "B" :> Units(6) @@ "C" :> Units(5))

\* C10 as amended (SpecData): the same, with in_mig = {B: 10, A: 4, C: 5}.
ExampleTotals ==
    raw = ExampleRaw =>
        /\ {flows[i] : i \in DOMAIN flows} = ExampleFlows
        /\ Len(flows) = 3
        /\ in_mig = ("B" :> Units(10) @@ "A" :> Units(4) @@ "C" :> Units(5))
        /\ out_mig = ("A" :> Units(15) @@ "B" :> Units(4))
        /\ net_mig = ("A" :> Units(0 - 11) @@ "B" :> Units(6) @@ "C" :> Units(5))

\* the server started on the worked example
ExampleWitness ==
    /\ raw = ExampleRaw
    /\ flows[1] = Rec("A", "B", Units(10))
    /\ Get(in_mig, "C", 0) = Units(5)

=============================================================================
